---------------------------- MODULE Spec2Model ----------------------------
(***************************************************************************)
(* The job-status manager of kubesync (src/manager/server.go): the HTTP    *)
(* handlers that read a mirror's job record from the store, merge a report *)
(* or a command into it and write it back, each store access bracketed by  *)
(* the manager's sync.RWMutex.  Handler goroutines run in parallel; one    *)
(* step of the model is one critical section or one lock-free stretch of a *)
(* handler.                                                                *)
(***************************************************************************)
EXTENDS Naturals, Sequences, FiniteSets, TLC

----------------------------------------------------------------------------
(* Bounds of the model. *)

\* the clock (time.Now().Unix()) runs from 1 to MaxTime; 0 is the zero value
MaxTime == 2

\* number of requests served in one behaviour
MaxReqs == 2

\* the gin handler goroutines that can run at the same time
Procs == {"h1", "h2"}

\* the jobs the store holds at start, and a mirror that has no job yet
MirrorIDs == {"A", "B"}
NewID == "C"

----------------------------------------------------------------------------
(* v1beta1 sync statuses named by the handlers, and the size sentinel. *)

PreSyncing == "PreSyncing"
Syncing == "Syncing"
Success == "Success"
Failed == "Failed"
Paused == "Paused"
Disabled == "Disabled"

Unknown == "unknown"

\* statuses a worker reports, sizes a worker reports
InStatuses == {PreSyncing, Success, Failed}
InSizes == {"", Unknown, "1G"}

\* values a request body can carry in the timestamp fields the handler
\* does not compute itself (0: the field is absent from the JSON body)
BodyTimes == {0}

\* v1beta1.JobStatus as the handlers use it
ZeroStatus ==
  [status |-> "", lastOnline |-> 0, lastRegister |-> 0, lastStarted |-> 0,
   lastUpdate |-> 0, lastEnded |-> 0, size |-> "", scheduled |-> 0]

----------------------------------------------------------------------------
(* Command verbs: internal.CmdVerb and its string codec. *)

CmdStart == 0
CmdStop == 1
CmdRestart == 2
CmdPing == 3
CmdUpdate == 4
\* referenced by handleClientCmd; neither internal file defines it
CmdDisable == 5

\* the verbs types.go defines, and the names the codec's maps hold
DefinedVerbs == {CmdStart, CmdStop, CmdRestart, CmdPing, CmdUpdate}
VerbNames == {"start", "stop", "restart", "ping"}

\* CmdVerb.String: a map lookup, "" for a verb that is not a key
CmdVerbString(c) ==
  CASE c = CmdStart -> "start"
    [] c = CmdStop -> "stop"
    [] c = CmdRestart -> "restart"
    [] c = CmdPing -> "ping"
    [] OTHER -> ""

\* NewCmdVerbFromString: a map lookup, the zero value (CmdStart) for a
\* string that is not a key
NewCmdVerbFromString(s) ==
  CASE s = "start" -> CmdStart
    [] s = "stop" -> CmdStop
    [] s = "restart" -> CmdRestart
    [] s = "ping" -> CmdPing
    [] OTHER -> CmdStart

\* verb strings a client sends in the "cmd" field; "disable" is no key of
\* the codec's maps
InVerbs == {"stop", "restart", "ping", "disable"}

\* outcomes of the network for an outbound POST
NetOutcomes == {"ok", "refused", "timeout"}

----------------------------------------------------------------------------
VARIABLES
  store,    \* the record store: mirror ID -> JobStatus, for the jobs that exist
  rwmu,     \* Manager.rwmu: [w: write-locked, r: number of read locks held]
  now,      \* the clock
  nreq,     \* requests accepted so far
  pc,       \* per handler goroutine: where it stands
  req,      \* per handler: the request it serves
  cur,      \* per handler: the status it read (curStatus / curStat / status)
  st,       \* per handler: the status it is about to write
  curTime,  \* per handler: updateJob's curTime
  idx,      \* per handler: position in the schedule batch
  resp,     \* per handler: the status code of the response (0: none yet)
  nw,       \* per handler: store writes this request has performed
  stale,    \* per handler: another handler wrote the record since this one read it
  applied   \* per job: the schedule last applied by updateSchedules, while no
            \* other write has touched the job since (0: none)

vars == <<store, rwmu, now, nreq, pc, req, cur, st, curTime, idx, resp, nw,
          stale, applied>>

\* the handler's own variables
locals == <<req, cur, st, curTime, idx, resp, nw>>

NoReq ==
  [op |-> "", id |-> "", body |-> ZeroStatus, batch |-> <<>>, verb |-> "",
   cmd |-> CmdStart]

Init ==
  /\ store = [m \in MirrorIDs |-> ZeroStatus]
  /\ rwmu = [w |-> FALSE, r |-> 0]
  /\ now = 1
  /\ nreq = 0
  /\ pc = [p \in Procs |-> "idle"]
  /\ req = [p \in Procs |-> NoReq]
  /\ cur = [p \in Procs |-> ZeroStatus]
  /\ st = [p \in Procs |-> ZeroStatus]
  /\ curTime = [p \in Procs |-> 0]
  /\ idx = [p \in Procs |-> 0]
  /\ resp = [p \in Procs |-> 0]
  /\ nw = [p \in Procs |-> 0]
  /\ stale = [p \in Procs |-> FALSE]
  /\ applied = [m \in MirrorIDs |-> 0]

----------------------------------------------------------------------------
(* Manager.rwmu and the store client. *)

\* rwmu.Lock() can return: no writer and no reader holds the mutex
CanLock == ~rwmu.w /\ rwmu.r = 0

\* rwmu.RLock() can return: no writer holds the mutex
CanRLock == ~rwmu.w

\* client.Get finds the job (GetJobRaw returns nil, err otherwise)
Exists(id) == id \in DOMAIN store

\* an update that writes w as it is, without the stamp of line 205
UpdateJobStatusNoStamp(id, w) ==
  IF Exists(id) THEN [store EXCEPT ![id] = w] ELSE store

\* UpdateJobStatus, lines 199-208: fetch the job again, replace its whole
\* status by w, stamp LastOnline, client.Update; an error and no write when
\* the job is not found
UpdateJobStatus(id, w) ==
  IF Exists(id)
    THEN [store EXCEPT ![id] = [w EXCEPT !.lastOnline = now]]
    ELSE store

\* the first status code written to the gin context stays
Respond(p, code) ==
  [resp EXCEPT ![p] = IF resp[p] = 0 THEN code ELSE resp[p]]

\* the mirror ID a handler is working on
CurID(p) ==
  IF req[p].op = "updateSchedules"
    THEN (IF idx[p] \in 1..Len(req[p].batch) THEN req[p].batch[idx[p]].id ELSE "")
    ELSE req[p].id

\* a handler that has read a record and has its write-back still to do
WritePending(p) == pc[p] \in {"uj_put", "us_put", "sc_put", "cm_put", "dj_del"}

\* a handler that has read a record in the request it is serving
HasRead(p) == WritePending(p) \/ pc[p] \in {"cm_post", "done"}

\* bookkeeping: handler p has just written (or deleted) record id
NoteWrite(p, id) ==
  [q \in Procs |-> IF q # p /\ HasRead(q) /\ CurID(q) = id THEN TRUE ELSE stale[q]]

\* a handler goroutine is free to take a request
Free(p) == pc[p] \in {"idle", "done", "recovered"} /\ nreq < MaxReqs

\* handler p takes request r and runs its first stretch, which leaves it at
\* label to with these values of its own variables
Begin(p, r, to, c, s, t, i, code) ==
  /\ Free(p)
  /\ nreq' = nreq + 1
  /\ req' = [req EXCEPT ![p] = r]
  /\ pc' = [pc EXCEPT ![p] = to]
  /\ cur' = [cur EXCEPT ![p] = c]
  /\ st' = [st EXCEPT ![p] = s]
  /\ curTime' = [curTime EXCEPT ![p] = t]
  /\ idx' = [idx EXCEPT ![p] = i]
  /\ resp' = [resp EXCEPT ![p] = code]
  /\ nw' = [nw EXCEPT ![p] = 0]
  /\ stale' = [stale EXCEPT ![p] = FALSE]

\* Lock(); GetJob on a job that is not found: GetJobRaw answers 500 and
\* returns a nil job, GetJob (line 195) dereferences it; gin.Recovery ends
\* the request, and the Unlock that follows the call is never reached
GetJobPanics(p, r) ==
  /\ CanLock
  /\ ~Exists(r.id)
  /\ Begin(p, r, "recovered", ZeroStatus, ZeroStatus, 0, 0, 500)
  /\ rwmu' = [rwmu EXCEPT !.w = TRUE]
  /\ UNCHANGED <<store, now, applied>>

\* Lock(); UpdateJobStatus(w); Unlock(): the write-back critical section
\* (sched: the schedule this write applies, 0 when it is not a schedule update)
PutStatus(p, id, w, sched) ==
  /\ CanLock
  /\ store' = UpdateJobStatus(id, w)
  /\ nw' = [nw EXCEPT ![p] = IF Exists(id) THEN nw[p] + 1 ELSE nw[p]]
  /\ stale' = IF Exists(id) THEN NoteWrite(p, id) ELSE stale
  /\ applied' = IF Exists(id) THEN [applied EXCEPT ![id] = sched] ELSE applied
  /\ UNCHANGED <<rwmu, now, nreq, req, idx>>

\* the handler function returns at label to: the statuses it held are gone
Finish(p, to) ==
  /\ pc' = [pc EXCEPT ![p] = to]
  /\ cur' = [cur EXCEPT ![p] = ZeroStatus]
  /\ st' = [st EXCEPT ![p] = ZeroStatus]
  /\ UNCHANGED curTime

----------------------------------------------------------------------------
(* The clock. *)

Tick ==
  /\ now < MaxTime
  /\ now' = now + 1
  /\ UNCHANGED <<store, rwmu, nreq, pc, locals, stale, applied>>

----------------------------------------------------------------------------
(* updateJob: POST /jobs/:id, lines 364-422 *)

\* a merge that restarts lastStarted on every PreSyncing report
MergeStatusNoEdge(status, curStatus, t) ==
  [status EXCEPT
     !.lastOnline = t,
     !.lastStarted =
       IF status.status = PreSyncing THEN t ELSE curStatus.lastStarted,
     !.lastUpdate =
       IF status.status = Success THEN t ELSE curStatus.lastUpdate,
     !.lastEnded =
       IF status.status = Success \/ status.status = Failed
         THEN t ELSE curStatus.lastEnded,
     !.size =
       IF /\ Len(curStatus.size) > 0 /\ curStatus.size # Unknown
          /\ (Len(status.size) = 0 \/ status.size = Unknown)
         THEN curStatus.size ELSE status.size]

\* a merge that counts a failed run as an update
MergeStatusFailedUpdates(status, curStatus, t) ==
  [status EXCEPT
     !.lastOnline = t,
     !.lastStarted =
       IF status.status = PreSyncing /\ curStatus.status # PreSyncing
         THEN t ELSE curStatus.lastStarted,
     !.lastUpdate =
       IF status.status = Success \/ status.status = Failed
         THEN t ELSE curStatus.lastUpdate,
     !.lastEnded =
       IF status.status = Success \/ status.status = Failed
         THEN t ELSE curStatus.lastEnded,
     !.size =
       IF /\ Len(curStatus.size) > 0 /\ curStatus.size # Unknown
          /\ (Len(status.size) = 0 \/ status.size = Unknown)
         THEN curStatus.size ELSE status.size]

\* lines 375-399: the status to write, from the reported status, the status
\* read from the store and the time read after the read
MergeStatus(status, curStatus, t) ==
  [status EXCEPT
     !.lastOnline = t,
     !.lastStarted =
       IF status.status = PreSyncing /\ curStatus.status # PreSyncing
         THEN t ELSE curStatus.lastStarted,
     !.lastUpdate =
       IF status.status = Success THEN t ELSE curStatus.lastUpdate,
     !.lastEnded =
       IF status.status = Success \/ status.status = Failed
         THEN t ELSE curStatus.lastEnded,
     !.size =
       IF /\ Len(curStatus.size) > 0 /\ curStatus.size # Unknown
          /\ (Len(status.size) = 0 \/ status.size = Unknown)
         THEN curStatus.size ELSE status.size]

\* the requests: the worker's own id in the URL and in the body, and the
\* status it reports
UpdateJobReqs ==
  { [NoReq EXCEPT !.op = "updateJob", !.id = id,
       !.body = [ZeroStatus EXCEPT !.status = s, !.size = z,
                   !.lastRegister = t, !.scheduled = t]] :
      id \in {"A"}, s \in InStatuses, z \in {"", "1G"}, t \in BodyTimes }

UpdateJobGetPanics(p) == \E r \in UpdateJobReqs : GetJobPanics(p, r)

\* lines 365-399: bind the body, Lock, GetJob, Unlock, read the clock, merge
UpdateJobGet(p) ==
  \E r \in UpdateJobReqs :
    /\ CanLock
    /\ Exists(r.id)
    /\ Begin(p, r, "uj_put", store[r.id], MergeStatus(r.body, store[r.id], now),
             now, 0, 0)
    /\ UNCHANGED <<store, rwmu, now, applied>>

\* a write-back that answers 200 whatever UpdateJobStatus returned
UpdateJobPutSwallows(p) ==
  /\ pc[p] = "uj_put"
  /\ PutStatus(p, req[p].id, st[p], 0)
  /\ resp' = Respond(p, 200)
  /\ Finish(p, "done")

\* lines 409-421: Lock, UpdateJobStatus, Unlock, answer
UpdateJobPut(p) ==
  /\ pc[p] = "uj_put"
  /\ PutStatus(p, req[p].id, st[p], 0)
  /\ resp' = Respond(p, IF Exists(req[p].id) THEN 200 ELSE 500)
  /\ Finish(p, "done")

----------------------------------------------------------------------------
(* registerMirror: POST /jobs, lines 288-309 *)

\* the bodies workers post: <<id, status, size>>
RegisterBodies == {<<"A", "", "">>, <<"A", Syncing, "1G">>, <<NewID, "", "">>}

\* lines 289-292: the body is the whole status; the two stamps
RegisterStart(p) ==
  \E b \in RegisterBodies, t \in BodyTimes :
    /\ Begin(p, [NoReq EXCEPT !.op = "registerMirror", !.id = b[1],
                   !.body = [ZeroStatus EXCEPT !.status = b[2], !.size = b[3],
                               !.lastStarted = t, !.lastUpdate = t,
                               !.lastEnded = t, !.scheduled = t,
                               !.lastOnline = now, !.lastRegister = now]],
             "rg_put", ZeroStatus, ZeroStatus, 0, 0, 0)
    /\ UNCHANGED <<store, rwmu, now, applied>>

\* lines 293-308: Lock, UpdateJobStatus, Unlock, answer
RegisterPut(p) ==
  /\ pc[p] = "rg_put"
  /\ PutStatus(p, req[p].id, req[p].body, 0)
  /\ resp' = Respond(p, IF Exists(req[p].id) THEN 200 ELSE 500)
  /\ Finish(p, "done")

----------------------------------------------------------------------------
(* updateMirrorSize: POST /jobs/:id/size, lines 424-467 *)

\* lines 447-450: the status to write
SizeMerge(status, size) ==
  IF Len(size) > 0 \/ size # Unknown
    THEN [status EXCEPT !.size = size]
    ELSE status

UpdateSizeReqs ==
  { [NoReq EXCEPT !.op = "updateMirrorSize", !.id = id,
       !.body = [ZeroStatus EXCEPT !.size = z]] :
      id \in {"A"}, z \in InSizes }

UpdateSizeGetPanics(p) == \E r \in UpdateSizeReqs : GetJobPanics(p, r)

\* lines 425-450: bind the body, Lock, GetJob, Unlock, merge the size
UpdateSizeGet(p) ==
  \E r \in UpdateSizeReqs :
    /\ CanLock
    /\ Exists(r.id)
    /\ Begin(p, r, "us_put", store[r.id], SizeMerge(store[r.id], r.body.size),
             0, 0, 0)
    /\ UNCHANGED <<store, rwmu, now, applied>>

\* lines 454-466: Lock, UpdateJobStatus, Unlock, answer
UpdateSizePut(p) ==
  /\ pc[p] = "us_put"
  /\ PutStatus(p, req[p].id, st[p], 0)
  /\ resp' = Respond(p, IF Exists(req[p].id) THEN 200 ELSE 500)
  /\ Finish(p, "done")

----------------------------------------------------------------------------
(* updateSchedules: POST /jobs/:id/schedules, lines 317-362 *)

Item(id, t) == [id |-> id, next |-> t]

\* schedule batches a scheduler posts
Batches ==
  { <<Item("A", 1)>>,
    <<Item("A", 1), Item("", 2), Item("B", 1)>> }

\* lines 321-328 and 360-361, the head of the loop at item i: where the
\* handler goes, and the status code it writes (0: none): 400 for an empty
\* ID, after which it goes on with the item; 200 after the last item
LoopPC(b, i) == IF i > Len(b) THEN "done" ELSE "sc_get"

LoopCode(b, i) ==
  IF i > Len(b) THEN 200 ELSE IF Len(b[i].id) = 0 THEN 400 ELSE 0

\* handler p goes to the head of the loop at item i
Loop(p, i) ==
  /\ idx' = [idx EXCEPT ![p] = i]
  /\ pc' = [pc EXCEPT ![p] = LoopPC(req[p].batch, i)]
  /\ resp' = IF LoopCode(req[p].batch, i) = 0
               THEN resp ELSE Respond(p, LoopCode(req[p].batch, i))

\* lines 318-328: bind the batch, the first item
SchedulesStart(p) ==
  \E b \in Batches :
    /\ Begin(p, [NoReq EXCEPT !.op = "updateSchedules", !.batch = b],
             LoopPC(b, 1), ZeroStatus, ZeroStatus, 0, 1, LoopCode(b, 1))
    /\ UNCHANGED <<store, rwmu, now, applied>>

\* lines 330-331 on a job that is not found: GetJob panics
SchedulesGetPanics(p) ==
  /\ pc[p] = "sc_get"
  /\ CanLock
  /\ ~Exists(CurID(p))
  /\ rwmu' = [rwmu EXCEPT !.w = TRUE]
  /\ Finish(p, "recovered")
  /\ resp' = Respond(p, 500)
  /\ UNCHANGED <<store, now, nreq, req, idx, nw, stale, applied>>

\* a comparison that never finds the schedule stored
SameScheduleNever(curStatus, schedule) == FALSE

\* line 341: the stored schedule is the requested one
SameSchedule(curStatus, schedule) == curStatus.scheduled = schedule.next

\* lines 330-346: Lock, GetJob, Unlock; an unchanged schedule is skipped
SchedulesGet(p) ==
  LET item == req[p].batch[idx[p]] IN
  /\ pc[p] = "sc_get"
  /\ CanLock
  /\ Exists(item.id)
  /\ stale' = [stale EXCEPT ![p] = FALSE]
  /\ IF SameSchedule(store[item.id], item)
       THEN /\ Loop(p, idx[p] + 1)
            /\ applied' = [applied EXCEPT ![item.id] = item.next]
            /\ UNCHANGED <<cur, st>>
       ELSE /\ pc' = [pc EXCEPT ![p] = "sc_put"]
            /\ cur' = [cur EXCEPT ![p] = store[item.id]]
            /\ st' = [st EXCEPT ![p] = [store[item.id] EXCEPT !.scheduled = item.next]]
            /\ UNCHANGED <<applied, idx, resp>>
  /\ UNCHANGED <<store, rwmu, now, nreq, req, curTime, nw>>

\* lines 347-358: Lock, UpdateJobStatus, Unlock; an error ends the request
SchedulesPut(p) ==
  LET item == req[p].batch[idx[p]] IN
  /\ pc[p] = "sc_put"
  /\ CanLock
  /\ store' = UpdateJobStatus(item.id, st[p])
  /\ IF Exists(item.id)
       THEN /\ Loop(p, idx[p] + 1)
            /\ nw' = [nw EXCEPT ![p] = nw[p] + 1]
            /\ stale' = NoteWrite(p, item.id)
            /\ applied' = [applied EXCEPT ![item.id] = item.next]
       ELSE /\ pc' = [pc EXCEPT ![p] = "done"]
            /\ resp' = Respond(p, 500)
            /\ UNCHANGED <<idx, nw, stale, applied>>
  /\ cur' = [cur EXCEPT ![p] = ZeroStatus]
  /\ st' = [st EXCEPT ![p] = ZeroStatus]
  /\ UNCHANGED <<rwmu, now, nreq, req, curTime>>

----------------------------------------------------------------------------
(* handleClientCmd: POST /jobs/:id/cmd, lines 484-525 *)

\* a switch in which stop disables the job
CmdEffectStopDisables(curStat, cmd) ==
  CASE cmd = CmdDisable \/ cmd = CmdStop -> [curStat EXCEPT !.status = Disabled]
    [] OTHER -> curStat

\* lines 499-507: the status a verb sets locally
CmdEffect(curStat, cmd) ==
  CASE cmd = CmdDisable -> [curStat EXCEPT !.status = Disabled]
    [] cmd = CmdStop -> [curStat EXCEPT !.status = Paused]
    [] OTHER -> curStat

\* a switch in which every verb has a local effect
CmdChangesAlways(cmd) == TRUE

\* lines 499-507: changed
CmdChanges(cmd) == cmd = CmdDisable \/ cmd = CmdStop

\* PostJSON, lines 470-482: the request goes to the URL "", which
\* http.Client.Post refuses whatever the network would do
PostJSON(url, net) ==
  IF url = "" THEN "unsupported protocol scheme" ELSE net

\* the body is decoded by CmdVerb.UnmarshalJSON; the force flag is only
\* passed on to the worker
ClientCmdReqs ==
  { [NoReq EXCEPT !.op = "handleClientCmd", !.id = id,
       !.verb = v, !.cmd = NewCmdVerbFromString(v)] :
      id \in {"A"}, v \in InVerbs }

ClientCmdGetPanics(p) == \E r \in ClientCmdReqs : GetJobPanics(p, r)

\* lines 485-507: bind the body, Lock, GetJob, Unlock, the verb's local effect
ClientCmdGet(p) ==
  \E r \in ClientCmdReqs :
    /\ CanLock
    /\ Exists(r.id)
    /\ Begin(p, r, IF CmdChanges(r.cmd) THEN "cm_put" ELSE "cm_post",
             store[r.id], CmdEffect(store[r.id], r.cmd), 0, 0, 0)
    /\ UNCHANGED <<store, rwmu, now, applied>>

\* lines 508-512: Lock, UpdateJobStatus, Unlock; the error is dropped, but
\* GetJobRaw inside UpdateJobStatus has answered 500 when the job is not found
ClientCmdPut(p) ==
  /\ pc[p] = "cm_put"
  /\ PutStatus(p, req[p].id, st[p], 0)
  /\ pc' = [pc EXCEPT ![p] = "cm_post"]
  /\ resp' = IF Exists(req[p].id) THEN resp ELSE Respond(p, 500)
  /\ UNCHANGED <<cur, st, curTime>>

\* lines 514-524: post the command to the worker, answer
ClientCmdPost(p) ==
  /\ pc[p] = "cm_post"
  /\ \E net \in NetOutcomes :
       resp' = Respond(p, IF PostJSON("", net) = "ok" THEN 200 ELSE 500)
  /\ Finish(p, "done")
  /\ UNCHANGED <<store, rwmu, now, nreq, req, idx, nw, stale, applied>>

----------------------------------------------------------------------------
(* getJob: GET /jobs/:id, lines 243-261 *)

GetJobStart(p) ==
  \E id \in {"A"} :
    /\ Begin(p, [NoReq EXCEPT !.op = "getJob", !.id = id], "gj_lock",
             ZeroStatus, ZeroStatus, 0, 0, 0)
    /\ UNCHANGED <<store, rwmu, now, applied>>

\* line 248: rwmu.Lock()
GetJobLock(p) ==
  /\ pc[p] = "gj_lock"
  /\ CanLock
  /\ rwmu' = [rwmu EXCEPT !.w = TRUE]
  /\ pc' = [pc EXCEPT ![p] = "gj_get"]
  /\ UNCHANGED <<store, now, nreq, locals, stale, applied>>

\* lines 249-260: GetJob, Unlock, answer
GetJobGet(p) ==
  /\ pc[p] = "gj_get"
  /\ Exists(req[p].id)
  /\ rwmu' = [rwmu EXCEPT !.w = FALSE]
  /\ resp' = Respond(p, 200)
  /\ Finish(p, "done")
  /\ UNCHANGED <<store, now, nreq, req, idx, nw, stale, applied>>

\* line 249 on a job that is not found: GetJob panics, the mutex stays locked
GetJobGetPanics(p) ==
  /\ pc[p] = "gj_get"
  /\ ~Exists(req[p].id)
  /\ resp' = Respond(p, 500)
  /\ Finish(p, "recovered")
  /\ UNCHANGED <<store, rwmu, now, nreq, req, idx, nw, stale, applied>>

----------------------------------------------------------------------------
(* listAllJobs: GET /jobs, lines 219-241 *)

ListJobsStart(p) ==
  /\ Begin(p, [NoReq EXCEPT !.op = "listAllJobs"], "ls_rlock",
           ZeroStatus, ZeroStatus, 0, 0, 0)
  /\ UNCHANGED <<store, rwmu, now, applied>>

\* line 222: rwmu.RLock()
ListJobsRLock(p) ==
  /\ pc[p] = "ls_rlock"
  /\ CanRLock
  /\ rwmu' = [rwmu EXCEPT !.r = rwmu.r + 1]
  /\ pc' = [pc EXCEPT ![p] = "ls_list"]
  /\ UNCHANGED <<store, now, nreq, locals, stale, applied>>

\* lines 223-240: List, RUnlock, answer
ListJobsList(p) ==
  /\ pc[p] = "ls_list"
  /\ rwmu' = [rwmu EXCEPT !.r = rwmu.r - 1]
  /\ resp' = Respond(p, 200)
  /\ Finish(p, "done")
  /\ UNCHANGED <<store, now, nreq, req, idx, nw, stale, applied>>

----------------------------------------------------------------------------
(* deleteJob: DELETE /jobs/:id, lines 264-285 *)

\* lines 265-273: Lock, GetJobRaw, Unlock; a job not found is answered 500
DeleteJobGet(p) ==
  \E id \in {"A"} :
    /\ CanLock
    /\ Begin(p, [NoReq EXCEPT !.op = "deleteJob", !.id = id],
             IF Exists(id) THEN "dj_del" ELSE "done",
             ZeroStatus, ZeroStatus, 0, 0, IF Exists(id) THEN 0 ELSE 500)
    /\ UNCHANGED <<store, rwmu, now, applied>>

\* lines 274-284: client.Delete, outside the mutex
DeleteJobDelete(p) ==
  /\ pc[p] = "dj_del"
  /\ IF Exists(req[p].id)
       THEN /\ store' = [m \in DOMAIN store \ {req[p].id} |-> store[m]]
            /\ resp' = Respond(p, 200)
            /\ nw' = [nw EXCEPT ![p] = nw[p] + 1]
            /\ stale' = NoteWrite(p, req[p].id)
            /\ applied' = [applied EXCEPT ![req[p].id] = 0]
       ELSE /\ resp' = Respond(p, 500)
            /\ UNCHANGED <<store, nw, stale, applied>>
  /\ Finish(p, "done")
  /\ UNCHANGED <<rwmu, now, nreq, req, idx>>

----------------------------------------------------------------------------
Next ==
  \/ Tick
  \/ \E p \in Procs :
       \/ UpdateJobGetPanics(p) \/ UpdateJobGet(p) \/ UpdateJobPut(p)
       \/ RegisterStart(p) \/ RegisterPut(p)
       \/ UpdateSizeGetPanics(p) \/ UpdateSizeGet(p) \/ UpdateSizePut(p)
       \/ SchedulesStart(p) \/ SchedulesGetPanics(p) \/ SchedulesGet(p)
       \/ SchedulesPut(p)
       \/ ClientCmdGetPanics(p) \/ ClientCmdGet(p) \/ ClientCmdPut(p)
       \/ ClientCmdPost(p)
       \/ GetJobStart(p) \/ GetJobLock(p) \/ GetJobGet(p) \/ GetJobGetPanics(p)
       \/ ListJobsStart(p) \/ ListJobsRLock(p) \/ ListJobsList(p)
       \/ DeleteJobGet(p) \/ DeleteJobDelete(p)

Spec == Init /\ [][Next]_vars

----------------------------------------------------------------------------
(* Properties. *)

\* a size that says something
Known(size) == Len(size) > 0 /\ size # Unknown

\* handler p takes a step of the write-back at label at
Steps(p, at) == pc[p] = at /\ pc'[p] # at

\* C1: in updateJob, updateMirrorSize, updateSchedules and handleClientCmd
\* the gate is held from the read of the record to its write-back: no other
\* handler writes the record between a handler's read and its own write.
C1_NoWriteBetweenReadAndWrite ==
  \A p \in Procs :
    pc[p] \in {"uj_put", "us_put", "sc_put", "cm_put"} => ~stale[p]

\* C2: once the stored size is known, a write-back of updateJob or
\* updateMirrorSize whose request carries an empty or "unknown" size leaves
\* the stored size as it is.  (Stated of a handler whose record no other
\* handler has written since it read it, so that a violation is the
\* handler's own doing and not a lost update.)
C2_SizeNeverRegresses ==
  [][\A p \in Procs :
       ( /\ Steps(p, "uj_put") \/ Steps(p, "us_put")
         /\ ~stale[p]
         /\ Exists(req[p].id)
         /\ Known(store[req[p].id].size)
         /\ ~Known(req[p].body.size) )
       => store'[req[p].id].size = store[req[p].id].size]_vars

\* handler p takes a step of updateSchedules at label at
SchedSteps(p, at) ==
  pc[p] = at /\ (pc'[p] # at \/ idx'[p] # idx[p])

\* C3: updateSchedules applied twice in a row with the same (id,
\* nextSchedule): the first application, which finds another schedule
\* stored, writes the record once and stores the schedule; the second, which
\* comes with no other write to the record in between, writes nothing and
\* leaves the store as the first left it.
C3_IdempotentSchedule ==
  [][\A p \in Procs :
       LET item == req[p].batch[idx[p]] IN
       /\ ( /\ SchedSteps(p, "sc_get") /\ Exists(item.id)
            /\ store[item.id].scheduled # item.next )
          => pc'[p] = "sc_put" /\ store' = store
       /\ (SchedSteps(p, "sc_put") /\ Exists(item.id))
          => /\ store'[item.id].scheduled = item.next
             /\ nw'[p] = nw[p] + 1
             /\ pc'[p] # "sc_put"
             /\ applied'[item.id] = item.next
       /\ ( /\ SchedSteps(p, "sc_get") /\ Exists(item.id)
            /\ applied[item.id] = item.next )
          => store' = store /\ nw'[p] = nw[p] /\ pc'[p] # "sc_put"]_vars

\* two requests with the batch [(A, 1)] have been served: one wrote once,
\* the other wrote nothing and found the schedule the first one stored
C3_Witness ==
  \E p, q \in Procs :
    /\ p # q
    /\ pc[p] = "done" /\ pc[q] = "done"
    /\ req[p].batch = <<Item("A", 1)>> /\ req[q].batch = <<Item("A", 1)>>
    /\ resp[p] = 200 /\ resp[q] = 200
    /\ nw[q] = 1 /\ nw[p] = 0
    /\ applied["A"] = 1
    /\ store["A"].scheduled = 1

\* the write-back of updateJob by handler p, on a job that is found
UpdateJobWrites(p) == Steps(p, "uj_put") /\ Exists(req[p].id)

\* C4: updateJob stores lastStarted = the time it read iff the reported
\* status is PreSyncing and the status it read from the store is not;
\* otherwise it stores the lastStarted it read, which is the stored one
\* when no other handler has written the record since.
C4_LastStartedEdge ==
  [][\A p \in Procs :
       UpdateJobWrites(p) =>
         LET id == req[p].id
             edge == req[p].body.status = PreSyncing /\ cur[p].status # PreSyncing
         IN /\ edge => store'[id].lastStarted = curTime[p]
            /\ ~edge => store'[id].lastStarted = cur[p].lastStarted
            /\ ~stale[p] => cur[p] = store[id]
            /\ (~edge /\ ~stale[p])
                 => store'[id].lastStarted = store[id].lastStarted]_vars

\* PreSyncing was reported at time 1, which stored lastStarted = 1, and
\* reported again at time 2 by a handler that read the record after that
\* and wrote it back last: lastStarted is still 1
C4_Witness ==
  \E p, q \in Procs :
    /\ p # q
    /\ pc[p] = "done" /\ pc[q] = "done"
    /\ req[p].op = "updateJob" /\ req[q].op = "updateJob"
    /\ req[p].body.status = PreSyncing /\ req[q].body.status = PreSyncing
    /\ resp[p] = 200 /\ resp[q] = 200
    /\ curTime[q] = 1 /\ curTime[p] = 2
    /\ ~stale[p]
    /\ store["A"].status = PreSyncing
    /\ store["A"].lastStarted = 1
    /\ store["A"].lastOnline = 2

\* C5: updateJob with reported status Failed stores lastEnded = the time it
\* read and the lastUpdate it read; with Success it stores that time in
\* both; with any other status it stores the lastEnded and lastUpdate it
\* read, which are the stored ones when no other handler has written the
\* record since.
C5_TerminalTimestamps ==
  [][\A p \in Procs :
       UpdateJobWrites(p) =>
         LET id == req[p].id
             s == req[p].body.status
             kept == IF stale[p] THEN cur[p] ELSE store[id]
         IN /\ s = Failed => /\ store'[id].lastEnded = curTime[p]
                             /\ store'[id].lastUpdate = kept.lastUpdate
            /\ s = Success => /\ store'[id].lastEnded = curTime[p]
                              /\ store'[id].lastUpdate = curTime[p]
            /\ s \notin {Success, Failed}
                 => /\ store'[id].lastEnded = kept.lastEnded
                    /\ store'[id].lastUpdate = kept.lastUpdate]_vars

\* Success was reported at time 1 and Failed at time 2, by a handler that
\* read the record after the first had written it: lastUpdate is still 1,
\* lastEnded is 2
C5_Witness ==
  \E p, q \in Procs :
    /\ p # q
    /\ pc[p] = "done" /\ pc[q] = "done"
    /\ req[p].op = "updateJob" /\ req[q].op = "updateJob"
    /\ req[q].body.status = Success /\ req[p].body.status = Failed
    /\ resp[p] = 200 /\ resp[q] = 200
    /\ curTime[q] = 1 /\ curTime[p] = 2
    /\ ~stale[p]
    /\ store["A"].status = Failed
    /\ store["A"].lastUpdate = 1
    /\ store["A"].lastEnded = 2

\* the three-item batch with an empty ID in the middle
BadBatch == <<Item("A", 1), Item("", 2), Item("B", 1)>>

\* C6: updateSchedules goes on with the remaining items after an item whose
\* ID is empty: when the request with the batch [(A,1), ("",2), (B,1)], the
\* only request served, has ended, A and B both have the new schedule.
C6_BatchContinues ==
  \A p \in Procs :
    (pc[p] \in {"done", "recovered"} /\ req[p].batch = BadBatch /\ nreq = 1)
      => /\ store["A"].scheduled = 1
         /\ store["B"].scheduled = 1

\* C7: handleClientCmd with the verb stop on a job that is found writes the
\* status Paused, once, and then posts the command; the step that posts,
\* whatever the network does, writes nothing and ends the request.
C7_StopStaysPaused ==
  [][\A p \in Procs :
       LET id == req[p].id IN
       /\ ( /\ pc[p] \notin {"cm_put", "cm_post"}
            /\ pc'[p] \in {"cm_put", "cm_post"}
            /\ req'[p].cmd = CmdStop )
          => pc'[p] = "cm_put" /\ store' = store
       /\ (Steps(p, "cm_put") /\ req[p].cmd = CmdStop /\ Exists(id))
          => /\ store'[id] = [cur[p] EXCEPT !.status = Paused, !.lastOnline = now]
             /\ nw'[p] = nw[p] + 1
             /\ pc'[p] = "cm_post"
       /\ Steps(p, "cm_post")
          => /\ store' = store
             /\ nw'[p] = nw[p]
             /\ pc'[p] = "done"
             /\ resp'[p] \in {200, 500}]_vars

\* a stop command has been served: one write, the relay failed and was
\* reported, and the job, which no other handler has written, is Paused
C7_Witness ==
  \E p \in Procs :
    /\ pc[p] = "done"
    /\ req[p].op = "handleClientCmd"
    /\ req[p].cmd = CmdStop
    /\ nw[p] = 1
    /\ resp[p] = 500
    /\ ~stale[p]
    /\ store["A"].status = Paused

\* C8: registerMirror creates the record when there is none and updates it
\* when there is one: when the request, the only one served, has ended, it
\* was answered 200 and the record exists with the lastRegister and
\* lastOnline stamps of the request.
C8_RegisterCreatesOrUpdates ==
  \A p \in Procs :
    (pc[p] = "done" /\ req[p].op = "registerMirror" /\ nreq = 1)
      => /\ resp[p] = 200
         /\ Exists(req[p].id)
         /\ store[req[p].id].lastRegister = req[p].body.lastRegister
         /\ store[req[p].id].lastOnline >= req[p].body.lastOnline

\* the record with the fields of status w, whatever its lastOnline stamp
SameButOnline(rec, w) == rec = [w EXCEPT !.lastOnline = rec.lastOnline]

\* C9: when two registerMirror requests for the same ID have both ended, the
\* store holds a record for the ID and it is the record one of the two wrote.
C9_ConcurrentRegister ==
  \A p, q \in Procs :
    ( /\ p # q
      /\ pc[p] = "done" /\ pc[q] = "done"
      /\ req[p].op = "registerMirror" /\ req[q].op = "registerMirror"
      /\ req[p].id = req[q].id )
    => /\ Exists(req[p].id)
       /\ \/ SameButOnline(store[req[p].id], req[p].body)
          \/ SameButOnline(store[req[p].id], req[q].body)

\* C10: on a record that exists before and after a step, lastRegister
\* changes only in registerMirror's write; lastStarted only in updateJob's
\* write of a PreSyncing report over a status read that is not PreSyncing;
\* lastUpdate only in updateJob's write of a Success report; lastEnded only
\* in updateJob's write of a Success or Failed report.
C10_TimestampsCarriedForward ==
  [][\A id \in MirrorIDs :
       (Exists(id) /\ id \in DOMAIN store') =>
         /\ store'[id].lastRegister # store[id].lastRegister
              => \E p \in Procs : Steps(p, "rg_put") /\ req[p].id = id
         /\ store'[id].lastStarted # store[id].lastStarted
              => \E p \in Procs :
                   /\ Steps(p, "uj_put") /\ req[p].id = id
                   /\ req[p].body.status = PreSyncing
                   /\ cur[p].status # PreSyncing
         /\ store'[id].lastUpdate # store[id].lastUpdate
              => \E p \in Procs :
                   /\ Steps(p, "uj_put") /\ req[p].id = id
                   /\ req[p].body.status = Success
         /\ store'[id].lastEnded # store[id].lastEnded
              => \E p \in Procs :
                   /\ Steps(p, "uj_put") /\ req[p].id = id
                   /\ req[p].body.status \in {Success, Failed}]_vars

\* C11: the write-back of updateSchedules, by a handler whose record no
\* other handler has written since it read it, changes the scheduled field
\* of the stored record and no other field.
C11_ScheduleWriteFrame ==
  [][\A p \in Procs :
       LET item == req[p].batch[idx[p]] IN
       (SchedSteps(p, "sc_put") /\ Exists(item.id) /\ ~stale[p])
         => store'[item.id] = [store[item.id] EXCEPT !.scheduled = item.next]]_vars

\* C12: at a batch item whose ID is empty updateSchedules does not enter
\* the critical section of GetJob: it takes no lock, reads nothing, and
\* goes on to the next item.
C12_EmptyIDNoStoreAccess ==
  [][\A p \in Procs :
       (SchedSteps(p, "sc_get") /\ CurID(p) = "")
         => /\ rwmu' = rwmu
            /\ store' = store
            /\ pc'[p] # "recovered"
            /\ idx'[p] = idx[p] + 1]_vars

\* C13: handleClientCmd with a verb that has a local effect posts the
\* command to the worker only after its status write has been committed.
C13_WriteBeforeNotify ==
  [][\A p \in Procs :
       (Steps(p, "cm_post") /\ CmdChanges(req[p].cmd)) => nw[p] = 1]_vars

\* a store read or write of the request handler p has served has failed
StoreFailed(p) ==
  \/ pc[p] = "recovered"
  \/ /\ pc[p] = "done"
     /\ \/ /\ req[p].op \in {"updateJob", "updateMirrorSize", "registerMirror",
                             "deleteJob"}
           /\ nw[p] = 0
        \/ /\ req[p].op = "handleClientCmd"
           /\ CmdChanges(req[p].cmd)
           /\ nw[p] = 0
        \/ /\ req[p].op = "updateSchedules"
           /\ idx[p] <= Len(req[p].batch)

NoEffectVerbs == {CmdStart, CmdRestart, CmdPing}

\* C15: handleClientCmd with the verb start, restart or ping goes from its
\* read straight to the post, and no step of it writes the store: the
\* stored records are after each of its steps what they were before.
C15_NoEffectVerbsWriteNothing ==
  [][\A p \in Procs :
       /\ ( /\ pc[p] \notin {"cm_put", "cm_post"}
            /\ pc'[p] \in {"cm_put", "cm_post"}
            /\ req'[p].cmd \in NoEffectVerbs )
          => pc'[p] = "cm_post" /\ store' = store /\ nw'[p] = 0
       /\ (Steps(p, "cm_post") /\ req[p].cmd \in NoEffectVerbs)
          => /\ nw[p] = 0 /\ nw'[p] = 0
             /\ store' = store
             /\ pc'[p] = "done"]_vars

\* a ping command, the only request served, has ended: no write, and the
\* job is as it was at the start, lastOnline included
C15_Witness ==
  \E p \in Procs :
    /\ pc[p] = "done"
    /\ req[p].op = "handleClientCmd"
    /\ req[p].cmd = CmdPing
    /\ nreq = 1
    /\ now = 2
    /\ nw[p] = 0
    /\ store["A"] = ZeroStatus

\* C16: a handler inside the store read of getJob or listAllJobs holds the
\* gate in shared mode at most: the gate is not write-locked.
C16_ReadsShareGate ==
  \A p \in Procs : pc[p] \in {"gj_get", "ls_list"} => ~rwmu.w

\* C17: the gate is write-locked only while a handler is inside a critical
\* section: once a request whose GetJob found no job has ended, and no
\* handler stands inside getJob's critical section, the gate is free.
C17_GateReleased ==
  (\E p \in Procs : pc[p] = "recovered")
    => (rwmu.w => \E q \in Procs : pc[q] = "gj_get")

\* C19: the write-back of updateJob, updateMirrorSize, registerMirror or
\* handleClientCmd leaves the scheduled field of the stored record as it is.
\* (Stated of a handler whose record no other handler has written since it
\* read it, so that a violation is the handler's own doing.)
C19_ScheduledOwnedByScheduler ==
  [][\A p \in Procs :
       ( /\ \/ Steps(p, "uj_put") \/ Steps(p, "us_put")
            \/ Steps(p, "rg_put") \/ Steps(p, "cm_put")
         /\ ~stale[p]
         /\ Exists(req[p].id) )
       => store'[req[p].id].scheduled = store[req[p].id].scheduled]_vars

\* C20: the lastOnline of a record that exists before and after a step
\* does not decrease.
C20_LastOnlineMonotone ==
  [][\A id \in MirrorIDs :
       (Exists(id) /\ id \in DOMAIN store')
         => store'[id].lastOnline >= store[id].lastOnline]_vars

\* an updateJob that read the record and the clock at time 1 wrote it back
\* at time 2, after another handler had written the record: lastOnline is 2
C20_Witness ==
  \E p, q \in Procs :
    /\ p # q
    /\ pc[p] = "done" /\ req[p].op = "updateJob" /\ nw[p] = 1
    /\ curTime[p] = 1
    /\ pc[q] = "done" /\ req[q].op = "registerMirror" /\ nw[q] = 1
    /\ req[q].body.lastOnline = 2
    /\ store["A"].status = req[p].body.status
    /\ req[p].body.status = Failed
    /\ store["A"].lastEnded = 1
    /\ store["A"].lastOnline = 2

\* C18: decoding the string a defined verb encodes to gives the verb back;
\* the verb a request's string was decoded to encodes to that string when
\* the string is a verb's name, and does not encode to "start" when it is not.
C18_VerbCodec ==
  /\ \A c \in DefinedVerbs : NewCmdVerbFromString(CmdVerbString(c)) = c
  /\ \A p \in Procs :
       req[p].op = "handleClientCmd" =>
         IF req[p].verb \in VerbNames
           THEN CmdVerbString(req[p].cmd) = req[p].verb
           ELSE CmdVerbString(req[p].cmd) # "start"

=============================================================================
